---- MODULE Spec2Model ----
(***************************************************************************)
(* Model of the control plane in src/main.rs: the startup sequence of      *)
(* main (environment, application token, conduit discovery or creation,    *)
(* user resolution, subscription pass, control server) and the handler     *)
(* session_assign of POST /session/assign, together with the provider      *)
(* (Twitch Helix) state the calls act on.                                  *)
(*                                                                         *)
(* An Option<T> is modelled as a sequence: <<>> is None, <<x>> is Some(x). *)
(***************************************************************************)
EXTENDS Integers, Sequences, FiniteSets, TLC

\* ------------------------------------------------------------------ bounds
\* Number of requests the control endpoint receives in a run.
MaxRequests == 2
\* Largest number of conduits the provider holds before the run.
MaxConduits == 2
\* Largest number of users the batch user lookup returns.
MaxUsers == 2

\* ------------------------------------------------------------ value spaces
None == <<>>
Some(x) == <<x>>

\* Conduit ids the provider may already hold, and the id it gives to a
\* conduit created during the run.
ExistingConduitIds == 1..MaxConduits
NewConduitId == MaxConduits + 1
ConduitIds == ExistingConduitIds \cup {NewConduitId}

\* Shard ids of a conduit at the provider; the handler names "0".
ShardIds == {"0", "1"}

\* User ids the provider may resolve: the acting user, and the broadcasters
\* in the order the provider lists them.
MyUserId == "me"
BroadcasterIds == [n \in 1..MaxUsers |-> "b" \o ToString(n)]

\* Request bodies and bearer tokens a client may send.
Bodies == {"wss://example/session1", "wss://example/session2"}
Secret == "s3cret"
BearerTokens == {Secret, "wrong"}

\* The Authorization header of a request: absent, present but not a Bearer
\* credential, or Bearer <token>.
Headers ==
  {[kind |-> "missing"], [kind |-> "malformed"]}
    \cup {[kind |-> "bearer", token |-> t] : t \in BearerTokens}

\* Sequences over S without repetition, of length at most n.
RECURSIVE SeqsNoDup(_, _)
SeqsNoDup(S, n) ==
  IF n = 0 THEN {<<>>}
  ELSE {<<>>} \cup
       UNION {{<<x>> \o s : s \in SeqsNoDup(S \ {x}, n - 1)} : x \in S}

\* The subsequences of s: the elements at the positions in I, in order.
SubSeq_(s, I) ==
  LET F[k \in 0..Len(s)] ==
        IF k = 0 THEN <<>>
        ELSE IF k \in I THEN Append(F[k - 1], s[k]) ELSE F[k - 1]
  IN F[Len(s)]

SubSeqs(s) == {SubSeq_(s, I) : I \in SUBSET (1..Len(s))}

\* ---------------------------------------------------------------- the env
EnvVars ==
  <<"CONTROL_PORT", "CONTROL_HARDCODED_TOKEN", "TWITCH_CLIENT_ID",
    "TWITCH_CLIENT_SECRET", "TWITCH_USER_LOGIN", "TWITCH_BROADCASTER_LOGIN">>

EnvNames == {EnvVars[k] : k \in 1..Len(EnvVars)}

\* Values a variable may hold when set.
EnvValues(name) ==
  CASE name = "CONTROL_PORT" -> {"8080", "http"}
    [] name = "CONTROL_HARDCODED_TOKEN" -> {Secret}
    [] OTHER -> {"x"}

\* str::parse::<u16>: Some(port) for a decimal u16, None otherwise.
ParseU16(s) == IF s = "8080" THEN Some(s) ELSE None

VARIABLES
  env,                    \* environment of the process: name -> Option<value>
  pc,                     \* position of main
  err,                    \* Option<error> main returned
  control_hardcoded_token,\* Option<String>, main.rs:28
  app_token,              \* Option<AppAccessToken>, main.rs:35
  conduits,               \* conduits listed, main.rs:42
  conduit,                \* Option<Conduit>, main.rs:46
  my_user,                \* Option<User>, main.rs:54
  broadcaster_users,      \* Vec<User>, main.rs:55
  i,                      \* position of the for loop over broadcaster_users
  control_state,          \* Option<ControlState>, main.rs:76
  helix_conduits,         \* provider: the conduits it holds, in list order
  helix_subscriptions,    \* provider: the subscriptions it holds
  helix_shards,           \* provider: conduit id -> shard id -> Option<Transport>
  create_conduit_calls,   \* create_conduit calls made, each its shard count
  subscription_calls,     \* create_eventsub_subscription calls made
  update_calls,           \* update_conduit_shards calls made
  requests                \* the requests of the control endpoint

vars ==
  <<env, pc, err, control_hardcoded_token, app_token, conduits, conduit,
    my_user, broadcaster_users, i, control_state, helix_conduits,
    helix_subscriptions, helix_shards, create_conduit_calls,
    subscription_calls, update_calls, requests>>

mainVars ==
  <<control_hardcoded_token, app_token, conduits, conduit, my_user,
    broadcaster_users, i, control_state>>

helixVars == <<helix_conduits, helix_subscriptions, helix_shards>>

callVars == <<create_conduit_calls, subscription_calls, update_calls>>

\* ------------------------------------------------------------- transports
\* A variant of TransportWebsocket that loses the session id.
TransportWebsocketEmpty(session_id) ==
  [method |-> "websocket", session_id |-> ""]

\* Transport::websocket(session_id)
TransportWebsocket(session_id) ==
  [method |-> "websocket", session_id |-> session_id]

\* Transport::conduit(conduit_id)
TransportConduit(conduit_id) ==
  [method |-> "conduit", conduit_id |-> conduit_id]

\* Shard::new(id, transport)
ShardNew(id, transport) == [id |-> id, transport |-> transport]

\* ChannelChatMessageV1::new(broadcaster_user_id, user_id)
ChannelChatMessageV1(broadcaster_user_id, user_id) ==
  [type |-> "channel.chat.message",
   broadcaster_user_id |-> broadcaster_user_id,
   user_id |-> user_id]

\* The application token a successful acquisition yields.
AppToken == "app-token"

NoRequest ==
  [st |-> "none", header |-> [kind |-> "missing"], body |-> "",
   r |-> None, resp |-> None]

\* ------------------------------------------------------------------- Init
Init ==
  /\ env \in {e \in [EnvNames -> {None} \cup {Some(v) : v \in {"8080", "http", Secret, "x"}}] :
               \A n \in EnvNames : e[n] = None \/ e[n][1] \in EnvValues(n)}
  /\ pc = "env"
  /\ err = None
  /\ control_hardcoded_token = None
  /\ app_token = None
  /\ conduits = <<>>
  /\ conduit = None
  /\ my_user = None
  /\ broadcaster_users = <<>>
  /\ i = 1
  /\ control_state = None
  /\ helix_conduits \in SeqsNoDup(ExistingConduitIds, MaxConduits)
  /\ helix_subscriptions = {}
  /\ helix_shards = [c \in ConduitIds |-> [s \in ShardIds |-> None]]
  /\ create_conduit_calls = <<>>
  /\ subscription_calls = <<>>
  /\ update_calls = <<>>
  /\ requests = [r \in 1..MaxRequests |-> NoRequest]

\* main returns Err(e): the process exits.
Exit(e) ==
  /\ pc' = "exited"
  /\ err' = Some(e)

\* ------------------------------------------------------------------- main
\* A variant of FirstBadVar that lets a missing TWITCH_BROADCASTER_LOGIN
\* pass, as reading it with a default would.
FirstBadVarDefaulted ==
  LET bad(k) == \/ /\ env[EnvVars[k]] = None
                   /\ EnvVars[k] # "TWITCH_BROADCASTER_LOGIN"
                \/ /\ EnvVars[k] = "CONTROL_PORT"
                   /\ env[EnvVars[k]] # None
                   /\ ParseU16(env[EnvVars[k]][1]) = None
      S == {k \in 1..Len(EnvVars) : bad(k)}
  IN IF S = {} THEN 0 ELSE CHOOSE k \in S : \A j \in S : k <= j

\* The first variable, in the order main reads them, that is missing (or,
\* for CONTROL_PORT, that does not parse); 0 when all are usable.
FirstBadVar ==
  LET bad(k) == \/ env[EnvVars[k]] = None
                \/ /\ EnvVars[k] = "CONTROL_PORT"
                   /\ ParseU16(env[EnvVars[k]][1]) = None
      S == {k \in 1..Len(EnvVars) : bad(k)}
  IN IF S = {} THEN 0 ELSE CHOOSE k \in S : \A j \in S : k <= j

\* main.rs:27-32: read the six variables, returning at the first bad one.
ReadEnv ==
  /\ pc = "env"
  /\ IF FirstBadVar = 0
       THEN /\ control_hardcoded_token' = env["CONTROL_HARDCODED_TOKEN"]
            /\ pc' = "get_app_access_token"
            /\ err' = err
       ELSE /\ Exit(EnvVars[FirstBadVar])
            /\ UNCHANGED control_hardcoded_token
  /\ UNCHANGED <<env, app_token, conduits, conduit, my_user,
                 broadcaster_users, i, control_state, helixVars, callVars,
                 requests>>

\* main.rs:34-40: acquire the application token; a failure is returned.
GetAppAccessToken ==
  /\ pc = "get_app_access_token"
  /\ \E ok \in BOOLEAN :
       IF ok
         THEN /\ app_token' = Some(AppToken)
              /\ pc' = "get_conduits"
              /\ err' = err
         ELSE /\ Exit("get_app_access_token")
              /\ UNCHANGED app_token
  /\ UNCHANGED <<env, control_hardcoded_token, conduits, conduit, my_user,
                 broadcaster_users, i, control_state, helixVars, callVars,
                 requests>>

\* A variant of IterNext that takes the last element instead of the first.
IterNextLast(list) == IF list = <<>> THEN None ELSE Some(list[Len(list)])

\* main.rs:46: conduits.into_iter().next(): the first element, if any.
IterNext(list) == IF list = <<>> THEN None ELSE Some(Head(list))

\* main.rs:42-48: list the conduits and take the first one, if any.
GetConduits ==
  /\ pc = "get_conduits"
  /\ \E ok \in BOOLEAN :
       IF ok
         THEN /\ conduits' = helix_conduits
              /\ conduit' = IterNext(helix_conduits)
              /\ pc' = IF IterNext(helix_conduits) # None
                         THEN "get_user_from_login"
                         ELSE "create_conduit"
              /\ err' = err
         ELSE /\ Exit("get_conduits")
              /\ UNCHANGED <<conduits, conduit>>
  /\ UNCHANGED <<env, control_hardcoded_token, app_token, my_user,
                 broadcaster_users, i, control_state, helixVars, callVars,
                 requests>>

\* main.rs:49: the shard count main asks for when it creates a conduit.
ShardCount == 1

\* A variant of CreateConduit that tries again when the call fails.
CreateConduitRetry ==
  /\ pc = "create_conduit"
  /\ create_conduit_calls' = Append(create_conduit_calls, ShardCount)
  /\ \E ok \in BOOLEAN :
       IF ok
         THEN /\ helix_conduits' = Append(helix_conduits, NewConduitId)
              /\ conduit' = Some(NewConduitId)
              /\ pc' = "get_user_from_login"
         ELSE UNCHANGED <<helix_conduits, conduit, pc>>
  /\ UNCHANGED <<env, err, control_hardcoded_token, app_token, conduits,
                 my_user, broadcaster_users, i, control_state,
                 helix_subscriptions, helix_shards, subscription_calls,
                 update_calls, requests>>

\* main.rs:48-50: no conduit was listed: create one.
CreateConduit ==
  /\ pc = "create_conduit"
  /\ create_conduit_calls' = Append(create_conduit_calls, ShardCount)
  /\ \E ok \in BOOLEAN :
       IF ok
         THEN /\ helix_conduits' = Append(helix_conduits, NewConduitId)
              /\ conduit' = Some(NewConduitId)
              /\ pc' = "get_user_from_login"
              /\ err' = err
         ELSE /\ Exit("create_conduit")
              /\ UNCHANGED <<helix_conduits, conduit>>
  /\ UNCHANGED <<env, control_hardcoded_token, app_token, conduits, my_user,
                 broadcaster_users, i, control_state, helix_subscriptions,
                 helix_shards, subscription_calls, update_calls, requests>>

\* A variant of GetUserFromLogin that goes on with an empty user when the
\* provider knows no such user.
GetUserFromLoginDefault ==
  /\ pc = "get_user_from_login"
  /\ \E res \in {"err", "none", "some"} :
       IF res # "err"
         THEN /\ my_user' = Some(IF res = "some" THEN MyUserId ELSE "")
              /\ pc' = "get_users_from_logins"
              /\ err' = err
         ELSE /\ Exit("get_user_from_login")
              /\ UNCHANGED my_user
  /\ UNCHANGED <<env, control_hardcoded_token, app_token, conduits, conduit,
                 broadcaster_users, i, control_state, helixVars, callVars,
                 requests>>

\* main.rs:54: resolve the acting user; an error and "no such user" both
\* return from main.
GetUserFromLogin ==
  /\ pc = "get_user_from_login"
  /\ \E res \in {"err", "none", "some"} :
       IF res = "some"
         THEN /\ my_user' = Some(MyUserId)
              /\ pc' = "get_users_from_logins"
              /\ err' = err
         ELSE /\ Exit(IF res = "err" THEN "get_user_from_login"
                                      ELSE "failed to retrieve my user")
              /\ UNCHANGED my_user
  /\ UNCHANGED <<env, control_hardcoded_token, app_token, conduits, conduit,
                 broadcaster_users, i, control_state, helixVars, callVars,
                 requests>>

\* main.rs:55: resolve the broadcaster logins in one batch call; the call
\* yields the users the provider found, or fails, and a failure is returned.
GetUsersFromLogins ==
  /\ pc = "get_users_from_logins"
  /\ \/ /\ \E users \in SubSeqs(BroadcasterIds) :
             broadcaster_users' = users
        /\ i' = 1
        /\ pc' = "subscribe"
        /\ err' = err
     \/ /\ Exit("get_users_from_logins")
        /\ UNCHANGED <<broadcaster_users, i>>
  /\ UNCHANGED <<env, control_hardcoded_token, app_token, conduits, conduit,
                 my_user, control_state, helixVars, callVars, requests>>

\* The outcomes a create_eventsub_subscription call may have: the provider
\* rejects a subscription it already holds, and otherwise the call succeeds
\* or fails.
SubscriptionOutcomes(sub) ==
  IF sub \in helix_subscriptions THEN {FALSE} ELSE BOOLEAN

\* A variant of CreateEventsubSubscription that returns the error of a
\* failed call from main.
CreateEventsubSubscriptionFatal ==
  /\ pc = "subscribe"
  /\ i <= Len(broadcaster_users)
  /\ LET sub == [condition |-> ChannelChatMessageV1(broadcaster_users[i], my_user[1]),
                 transport |-> TransportConduit(conduit[1])]
     IN \E ok \in SubscriptionOutcomes(sub) :
          /\ subscription_calls' =
               Append(subscription_calls,
                      [subscription |-> sub, token |-> app_token[1], ok |-> ok])
          /\ helix_subscriptions' =
               IF ok THEN helix_subscriptions \cup {sub} ELSE helix_subscriptions
          /\ IF ok THEN UNCHANGED <<pc, err>>
                   ELSE Exit("create_eventsub_subscription")
  /\ i' = i + 1
  /\ UNCHANGED <<env, control_hardcoded_token, app_token, conduits,
                 conduit, my_user, broadcaster_users, control_state,
                 helix_conduits, helix_shards, create_conduit_calls,
                 update_calls, requests>>

\* main.rs:59-72: one iteration of the loop over broadcaster_users: one
\* create_eventsub_subscription call, whose result is logged either way.
CreateEventsubSubscription ==
  /\ pc = "subscribe"
  /\ i <= Len(broadcaster_users)
  /\ LET sub == [condition |-> ChannelChatMessageV1(broadcaster_users[i], my_user[1]),
                 transport |-> TransportConduit(conduit[1])]
     IN \E ok \in SubscriptionOutcomes(sub) :
          /\ subscription_calls' =
               Append(subscription_calls,
                      [subscription |-> sub, token |-> app_token[1], ok |-> ok])
          /\ helix_subscriptions' =
               IF ok THEN helix_subscriptions \cup {sub} ELSE helix_subscriptions
  /\ i' = i + 1
  /\ UNCHANGED <<env, pc, err, control_hardcoded_token, app_token, conduits,
                 conduit, my_user, broadcaster_users, control_state,
                 helix_conduits, helix_shards, create_conduit_calls,
                 update_calls, requests>>

\* A variant of ControlServer that puts the last conduit listed, if any, into
\* ControlState instead of the conduit main selected.
ControlServerLastListed ==
  /\ pc = "subscribe"
  /\ i > Len(broadcaster_users)
  /\ control_state' =
       Some([client |-> "helix", app_token |-> app_token[1],
             conduit |-> IF conduits # <<>> THEN conduits[Len(conduits)]
                                            ELSE conduit[1],
             token |-> control_hardcoded_token[1]])
  /\ \E ok \in BOOLEAN :
       IF ok THEN pc' = "serving" /\ err' = err
             ELSE Exit("bind")
  /\ UNCHANGED <<env, control_hardcoded_token, app_token, conduits, conduit,
                 my_user, broadcaster_users, i, helixVars, callVars, requests>>

\* A variant of ControlServer that does not wait for the loop to end.
ControlServerEarly ==
  /\ pc = "subscribe"
  /\ control_state' =
       Some([client |-> "helix", app_token |-> app_token[1],
             conduit |-> conduit[1], token |-> control_hardcoded_token[1]])
  /\ \E ok \in BOOLEAN :
       IF ok THEN pc' = "serving" /\ err' = err
             ELSE Exit("bind")
  /\ UNCHANGED <<env, control_hardcoded_token, app_token, conduits, conduit,
                 my_user, broadcaster_users, i, helixVars, callVars, requests>>

\* main.rs:76-89: after the loop, build ControlState and the router, bind
\* the listener and serve; a bind failure is returned.
ControlServer ==
  /\ pc = "subscribe"
  /\ i > Len(broadcaster_users)
  /\ control_state' =
       Some([client |-> "helix", app_token |-> app_token[1],
             conduit |-> conduit[1], token |-> control_hardcoded_token[1]])
  /\ \E ok \in BOOLEAN :
       IF ok THEN pc' = "serving" /\ err' = err
             ELSE Exit("bind")
  /\ UNCHANGED <<env, control_hardcoded_token, app_token, conduits, conduit,
                 my_user, broadcaster_users, i, helixVars, callVars, requests>>

\* ---------------------------------------------------------- the handler
\* main.rs:96: the TypedHeader<Authorization<Bearer>> extractor: the bearer
\* token of the header, or None when the extractor rejects the request.
TypedHeaderBearer(header) ==
  IF header.kind = "bearer" THEN Some(header.token) ELSE None

\* A variant of Authorized that accepts every bearer token.
AuthorizedAny(bearer, state) == bearer = bearer

\* main.rs:99: the handler's authorization test.
Authorized(bearer, state) == bearer = state.token

\* A variant of SessionAssign that holds a lock over the provider call: no
\* request is handled while another handler is between its call and its
\* answer.
SessionAssignSerialized ==
  /\ pc = "serving"
  /\ \A q \in 1..MaxRequests : requests[q].st \notin {"awaiting", "returned"}
  /\ \E r \in 1..MaxRequests, header \in Headers, body \in Bodies :
       /\ requests[r].st = "none"
       /\ \A q \in 1..(r - 1) : requests[q].st # "none"
       /\ LET bearer == TypedHeaderBearer(header)
              req == [NoRequest EXCEPT !.header = header, !.body = body]
          IN IF bearer = None
               THEN /\ requests' = [requests EXCEPT ![r] =
                          [req EXCEPT !.st = "done",
                                      !.resp = Some([status |-> 400, body |-> "rejection"])]]
                    /\ UNCHANGED update_calls
             ELSE IF ~Authorized(bearer[1], control_state[1])
               THEN /\ requests' = [requests EXCEPT ![r] =
                          [req EXCEPT !.st = "done",
                                      !.resp = Some([status |-> 401, body |-> ""])]]
                    /\ UNCHANGED update_calls
             ELSE /\ requests' = [requests EXCEPT ![r] = [req EXCEPT !.st = "awaiting"]]
                  /\ update_calls' =
                       Append(update_calls,
                              [request |-> r,
                               conduit_id |-> control_state[1].conduit,
                               shards |-> <<ShardNew("0", TransportWebsocket(body))>>,
                               token |-> control_state[1].app_token])
  /\ UNCHANGED <<env, pc, err, mainVars, helixVars, create_conduit_calls,
                 subscription_calls>>

\* main.rs:94-103: a request arrives while the server runs.  The extractor
\* rejects it, or the handler refuses it, or the handler issues the provider
\* call and awaits it.
SessionAssign ==
  /\ pc = "serving"
  /\ \E r \in 1..MaxRequests, header \in Headers, body \in Bodies :
       /\ requests[r].st = "none"
       /\ \A q \in 1..(r - 1) : requests[q].st # "none"
       /\ LET bearer == TypedHeaderBearer(header)
              req == [NoRequest EXCEPT !.header = header, !.body = body]
          IN IF bearer = None
               THEN /\ requests' = [requests EXCEPT ![r] =
                          [req EXCEPT !.st = "done",
                                      !.resp = Some([status |-> 400, body |-> "rejection"])]]
                    /\ UNCHANGED update_calls
             ELSE IF ~Authorized(bearer[1], control_state[1])
               THEN /\ requests' = [requests EXCEPT ![r] =
                          [req EXCEPT !.st = "done",
                                      !.resp = Some([status |-> 401, body |-> ""])]]
                    /\ UNCHANGED update_calls
             ELSE /\ requests' = [requests EXCEPT ![r] = [req EXCEPT !.st = "awaiting"]]
                  /\ update_calls' =
                       Append(update_calls,
                              [request |-> r,
                               conduit_id |-> control_state[1].conduit,
                               shards |-> <<ShardNew("0", TransportWebsocket(body))>>,
                               token |-> control_state[1].app_token])
  /\ UNCHANGED <<env, pc, err, mainVars, helixVars, create_conduit_calls,
                 subscription_calls>>

\* The update_conduit_shards call request r issued.
CallOf(r) ==
  CHOOSE c \in {update_calls[k] : k \in 1..Len(update_calls)} : c.request = r

\* A variant of UpdateConduitShards in which the handler issues the call
\* again when it fails.
UpdateConduitShardsRetry ==
  /\ \E r \in 1..MaxRequests, ok \in BOOLEAN :
       /\ requests[r].st = "awaiting"
       /\ LET c == CallOf(r)
              sh == c.shards[1]
          IN /\ helix_shards' =
                  IF ok
                    THEN [helix_shards EXCEPT ![c.conduit_id][sh.id] = Some(sh.transport)]
                    ELSE helix_shards
             /\ update_calls' = IF ok THEN update_calls ELSE Append(update_calls, c)
       /\ requests' = IF ok THEN [requests EXCEPT ![r].st = "returned",
                                                  ![r].r = Some("Ok")]
                            ELSE requests
  /\ UNCHANGED <<env, pc, err, mainVars, helix_conduits, helix_subscriptions,
                 create_conduit_calls, subscription_calls>>

\* main.rs:103: the provider answers the call of an awaiting handler: it
\* applies the shards of the call, or the call fails and changes nothing.
UpdateConduitShards ==
  /\ \E r \in 1..MaxRequests, ok \in BOOLEAN :
       /\ requests[r].st = "awaiting"
       /\ LET c == CallOf(r)
              sh == c.shards[1]
          IN helix_shards' =
               IF ok
                 THEN [helix_shards EXCEPT ![c.conduit_id][sh.id] = Some(sh.transport)]
                 ELSE helix_shards
       /\ requests' = [requests EXCEPT ![r].st = "returned",
                                       ![r].r = Some(IF ok THEN "Ok" ELSE "Err")]
  /\ UNCHANGED <<env, pc, err, mainVars, helix_conduits, helix_subscriptions,
                 callVars>>

\* A variant of SessionAssignRespond in which a handler answers only when no
\* earlier request is still waiting for its provider call.
SessionAssignRespondInOrder ==
  /\ \E r \in 1..MaxRequests :
       /\ requests[r].st = "returned"
       /\ \A q \in 1..(r - 1) : requests[q].st # "awaiting"
       /\ requests' = [requests EXCEPT ![r].st = "done",
                          ![r].resp = Some([status |-> 200, body |-> "Hello world!"])]
  /\ UNCHANGED <<env, pc, err, mainVars, helixVars, callVars>>

\* A variant of SessionAssignRespond that replaces the application token
\* held in ControlState when the provider call failed.
SessionAssignRespondRefresh ==
  /\ \E r \in 1..MaxRequests :
       /\ requests[r].st = "returned"
       /\ requests' = [requests EXCEPT ![r].st = "done",
                          ![r].resp = Some([status |-> 200, body |-> "Hello world!"])]
       /\ control_state' =
            IF requests[r].r = Some("Err")
              THEN Some([control_state[1] EXCEPT !.app_token = "refreshed"])
              ELSE control_state
  /\ UNCHANGED <<env, pc, err, control_hardcoded_token, app_token, conduits,
                 conduit, my_user, broadcaster_users, i, helixVars, callVars>>

\* A variant of SessionAssignRespond that reports a failed provider call
\* to the caller.
SessionAssignRespondPropagate ==
  /\ \E r \in 1..MaxRequests :
       /\ requests[r].st = "returned"
       /\ requests' = [requests EXCEPT ![r].st = "done",
                          ![r].resp =
                            IF requests[r].r = Some("Ok")
                              THEN Some([status |-> 200, body |-> "Hello world!"])
                              ELSE Some([status |-> 500, body |-> ""])]
  /\ UNCHANGED <<env, pc, err, mainVars, helixVars, callVars>>

\* main.rs:104-106: the handler logs the result and answers.
SessionAssignRespond ==
  /\ \E r \in 1..MaxRequests :
       /\ requests[r].st = "returned"
       /\ requests' = [requests EXCEPT ![r].st = "done",
                          ![r].resp = Some([status |-> 200, body |-> "Hello world!"])]
  /\ UNCHANGED <<env, pc, err, mainVars, helixVars, callVars>>

Next ==
  \/ ReadEnv
  \/ GetAppAccessToken
  \/ GetConduits
  \/ CreateConduit
  \/ GetUserFromLogin
  \/ GetUsersFromLogins
  \/ CreateEventsubSubscription
  \/ ControlServer
  \/ SessionAssign
  \/ UpdateConduitShards
  \/ SessionAssignRespond

Spec == Init /\ [][Next]_vars

\* The runs in which the environment is usable and the provider holds no
\* conduit yet: startup differs only in what the provider answers, and the
\* runs differ in what the handlers do.
InitUsable ==
  /\ Init
  /\ FirstBadVar = 0
  /\ helix_conduits = <<>>

\* The runtime resumes a handler whose provider call has returned; nothing
\* makes a provider call return.
FairSpec == InitUsable /\ [][Next]_vars /\ WF_vars(SessionAssignRespond)

\* ------------------------------------------------------- a second startup
\* The subscriptions an earlier run of main may have left at the provider:
\* those of the broadcasters, bound to the conduit that run used, the first
\* of the provider's list.
PriorSubscriptions(list) ==
  IF list = <<>> THEN {}
  ELSE {[condition |-> ChannelChatMessageV1(BroadcasterIds[n], MyUserId),
         transport |-> TransportConduit(Head(list))] : n \in 1..MaxUsers}

\* The state main starts in when the process is started again: as Init, but
\* the provider holds what an earlier run left.
InitRerun ==
  /\ env \in {e \in [EnvNames -> {None} \cup {Some(v) : v \in {"8080", "http", Secret, "x"}}] :
               \A n \in EnvNames : e[n] = None \/ e[n][1] \in EnvValues(n)}
  /\ pc = "env"
  /\ err = None
  /\ control_hardcoded_token = None
  /\ app_token = None
  /\ conduits = <<>>
  /\ conduit = None
  /\ my_user = None
  /\ broadcaster_users = <<>>
  /\ i = 1
  /\ control_state = None
  /\ helix_conduits \in SeqsNoDup(ExistingConduitIds, MaxConduits)
  /\ helix_subscriptions \in SUBSET PriorSubscriptions(helix_conduits)
  /\ helix_shards = [c \in ConduitIds |-> [s \in ShardIds |-> None]]
  /\ create_conduit_calls = <<>>
  /\ subscription_calls = <<>>
  /\ update_calls = <<>>
  /\ requests = [r \in 1..MaxRequests |-> NoRequest]

\* The steps of main up to the start of the server.
NextStartup ==
  \/ ReadEnv
  \/ GetAppAccessToken
  \/ GetConduits
  \/ CreateConduit
  \/ GetUserFromLogin
  \/ GetUsersFromLogins
  \/ CreateEventsubSubscription
  \/ ControlServer

SpecRerun == InitRerun /\ [][NextStartup]_vars

\* ================================================================ claims
Reqs == 1..MaxRequests

\* Request r has arrived.
Arrived(r) == requests[r].st # "none"

\* Request r carries a bearer token.
HasBearer(r) == Arrived(r) /\ requests[r].header.kind = "bearer"

\* Request r carries a bearer token other than the configured secret.
WrongSecret(r) ==
  HasBearer(r) /\ requests[r].header.token # control_state[1].token

\* Request r carries the configured secret.
RightSecret(r) ==
  HasBearer(r) /\ requests[r].header.token = control_state[1].token

\* The positions in update_calls of the calls request r issued.
CallsOf(r) == {k \in 1..Len(update_calls) : update_calls[k].request = r}

Response200 == Some([status |-> 200, body |-> "Hello world!"])
Response401 == Some([status |-> 401, body |-> ""])

\* C1 (state part): a request whose bearer token differs from the
\* configured secret is answered 401 Unauthorized at once and has no
\* provider call.
C1_WrongSecretState ==
  \A r \in Reqs :
    WrongSecret(r) =>
      /\ requests[r].st = "done"
      /\ requests[r].resp = Response401
      /\ requests[r].r = None
      /\ CallsOf(r) = {}

\* C1 (frame part): the step that handles such a request changes nothing
\* but that request's own record: no provider state, no call log, no state
\* of main, no other request.
C1_WrongSecretStep ==
  \A r \in Reqs :
    (~Arrived(r) /\ WrongSecret(r)') =>
      /\ UNCHANGED <<env, pc, err, mainVars, helixVars, callVars>>
      /\ \A q \in Reqs \ {r} : requests'[q] = requests[q]

\* C1: every request to session_assign whose bearer secret differs from
\* the configured control secret gets 401 Unauthorized, makes zero provider
\* calls, and leaves the provider's shard transports and all other state as
\* they were.
C1_UnauthorizedNoSideEffect ==
  [](C1_WrongSecretState) /\ [][C1_WrongSecretStep]_vars

\* A request with a wrong secret has been answered while the provider holds
\* a transport an earlier authorized request assigned.
C1_Witness ==
  \E r \in Reqs :
    /\ WrongSecret(r)
    /\ requests[r].resp = Response401
    /\ \E q \in Reqs : q < r /\ requests[q].r = Some("Ok")
    /\ helix_shards[control_state[1].conduit]["0"] # None

\* C2: every request with the correct secret and body b gets success and
\* has exactly one update_conduit_shards call, for shard "0", whose
\* transport is the websocket transport of exactly b; there is never a
\* second call for it, also after the provider call failed.
C2_ExactlyOneUpdateCall ==
  \A r \in Reqs :
    RightSecret(r) =>
      /\ Cardinality(CallsOf(r)) = 1
      /\ \A k \in CallsOf(r) :
           /\ Len(update_calls[k].shards) = 1
           /\ update_calls[k].shards[1].id = "0"
           /\ update_calls[k].shards[1].transport.method = "websocket"
           /\ update_calls[k].shards[1].transport.session_id = requests[r].body
      /\ requests[r].st = "done" => requests[r].resp = Response200

\* An authorized request whose provider call failed has been answered.
C2_Witness ==
  \E r \in Reqs :
    /\ RightSecret(r)
    /\ requests[r].st = "done"
    /\ requests[r].r = Some("Err")
    /\ Cardinality(CallsOf(r)) = 1

\* C3: the response to an authorized request is success whether the
\* provider call succeeded or failed; a provider failure does not end the
\* service, which goes on accepting requests.
C3_SuccessWhateverProviderOutcome ==
  /\ \A r \in Reqs :
       (RightSecret(r) /\ requests[r].st = "done") =>
         /\ requests[r].r \in {Some("Ok"), Some("Err")}
         /\ requests[r].resp = Response200
  /\ (\E r \in Reqs : requests[r].r = Some("Err")) =>
       /\ pc = "serving"
       /\ err = None
       /\ (\E q \in Reqs : ~Arrived(q)) => ENABLED SessionAssign

\* A request whose provider call failed got 200, and a request that arrived
\* after it got its provider call through.
C3_Witness ==
  \E r, q \in Reqs :
    /\ r < q
    /\ RightSecret(r) /\ requests[r].r = Some("Err")
    /\ requests[r].resp = Response200
    /\ RightSecret(q) /\ requests[q].r = Some("Ok")
    /\ requests[q].resp = Response200

\* The listing of conduits has returned successfully.
Listed ==
  /\ app_token # None
  /\ pc # "get_conduits"
  /\ err # Some("get_conduits")

\* C4: when listing conduits returns at least one conduit, main selects the
\* first conduit returned and makes no create-conduit call.
C4_SelectFirstExisting ==
  (Listed /\ conduits # <<>>) =>
    /\ conduit = Some(conduits[1])
    /\ create_conduit_calls = <<>>
    /\ helix_conduits = conduits
    /\ control_state # None => control_state[1].conduit = conduits[1]

\* Two conduits were listed and the server runs.
C4_Witness ==
  /\ Listed
  /\ Len(conduits) >= 2
  /\ pc = "serving"

\* C5: when listing conduits returns none, exactly one create-conduit call
\* is made, asking for the shard count the program is configured with; no
\* run makes more than one create-conduit call or creates more than one
\* conduit.
C5_CreateExactlyOne ==
  /\ Len(create_conduit_calls) <= 1
  /\ (Listed /\ conduits = <<>>) =>
       IF pc = "create_conduit"
         THEN create_conduit_calls = <<>>
         ELSE create_conduit_calls = <<ShardCount>>
  /\ Cardinality({k \in 1..Len(helix_conduits) :
                    helix_conduits[k] = NewConduitId})
       = (IF conduit = Some(NewConduitId) THEN 1 ELSE 0)
  /\ create_conduit_calls # <<>> => (Listed /\ conduits = <<>>)

\* No conduit was listed, one was created and the server runs with it.
C5_Witness ==
  /\ Listed
  /\ conduits = <<>>
  /\ create_conduit_calls = <<ShardCount>>
  /\ conduit = Some(NewConduitId)
  /\ pc = "serving"

\* The broadcaster a subscription call is for.
BroadcasterOf(call) == call.subscription.condition.broadcaster_user_id

\* C6: when a subscription-create call fails for one resolved target, main
\* still makes exactly one subscription-create call for every other
\* resolved target (the calls follow broadcaster_users one for one, none is
\* repeated and none is skipped) and goes on to start the control endpoint:
\* after a subscription attempt main returns only when the bind fails, with
\* every target attempted.
C6_SubscriptionFailureNonFatal ==
  /\ Len(subscription_calls) <= Len(broadcaster_users)
  /\ \A k \in 1..Len(subscription_calls) :
       BroadcasterOf(subscription_calls[k]) = broadcaster_users[k]
  /\ pc = "subscribe" => Len(subscription_calls) = i - 1
  /\ (pc = "serving" \/ control_state # None) =>
       Len(subscription_calls) = Len(broadcaster_users)
  /\ (pc = "exited" /\ subscription_calls # <<>>) =>
       /\ err = Some("bind")
       /\ control_state # None

\* The call for the first of two targets failed, the call for the second
\* succeeded, and the server runs.
C6_Witness ==
  /\ pc = "serving"
  /\ Len(broadcaster_users) = 2
  /\ Len(subscription_calls) = 2
  /\ ~subscription_calls[1].ok
  /\ subscription_calls[2].ok

\* C7: a failure to resolve the target logins, the failure of the
\* resolution call included, is not fatal: main does not return because of
\* it and goes on to the subscription pass and the control endpoint.
C7_TargetResolutionNonFatal ==
  /\ err # Some("get_users_from_logins")
  /\ (pc = "exited" /\ my_user # None) => control_state # None

\* C8: no request is served before the startup phase has run to the end:
\* whenever a request has arrived, the conduit has been selected or created,
\* ControlState holds it, and the subscription pass is over.
C8_NoRequestBeforeBootstrap ==
  (\E r \in Reqs : Arrived(r)) =>
    /\ pc = "serving"
    /\ conduit # None
    /\ control_state # None
    /\ control_state[1].conduit = conduit[1]
    /\ conduit[1] \in {helix_conduits[k] : k \in 1..Len(helix_conduits)}
    /\ i > Len(broadcaster_users)
    /\ Len(subscription_calls) = Len(broadcaster_users)

\* A request has been answered in a run that had two targets to subscribe.
C8_Witness ==
  /\ \E r \in Reqs : requests[r].st = "done"
  /\ Len(broadcaster_users) = 2

\* A required configuration value is missing.
MissingConfig == \E n \in EnvNames : env[n] = None

\* The errors of the fatal startup steps of the claim.
FatalStartupErrors ==
  {Some(n) : n \in EnvNames}
    \cup {Some("get_app_access_token"), Some("get_user_from_login"),
          Some("failed to retrieve my user")}

\* C9: when a fatal startup error occurs (a required configuration value is
\* missing, the application token cannot be acquired, or the acting user
\* cannot be resolved) main returns: the control endpoint never starts and
\* no request is ever served.
C9_FatalStartupNeverServes ==
  /\ (MissingConfig \/ err \in FatalStartupErrors) =>
       /\ pc \in {"env", "exited"}
       /\ control_state = None
       /\ \A r \in Reqs : ~Arrived(r)
  /\ err # None => pc = "exited"
  /\ pc = "exited" => err # None
  /\ pc = "serving" =>
       /\ ~MissingConfig
       /\ app_token = Some(AppToken)
       /\ my_user = Some(MyUserId)

\* The acting user was not found, after a conduit had been created: main
\* has returned.
C9_Witness ==
  /\ err = Some("failed to retrieve my user")
  /\ create_conduit_calls # <<>>
  /\ pc = "exited"

\* C10: every response of POST /session/assign is 200 OK with the fixed
\* confirmation body or 401 Unauthorized, also for a request whose
\* Authorization header is missing or malformed.
C10_Only200Or401 ==
  \A r \in Reqs :
    requests[r].resp # None => requests[r].resp \in {Response200, Response401}

\* The transport the provider holds for shard "0" of the conduit of
\* ControlState.
Shard0 == helix_shards[control_state[1].conduit]["0"]

\* The provider call of request r completes successfully in this step.
Completes(r) ==
  /\ requests[r].st = "awaiting"
  /\ requests'[r].r = Some("Ok")

\* C11 (state part): no local serialization: while a handler awaits its
\* provider call the endpoint still takes the next request, and the provider
\* may answer any of the calls in flight.
C11_NoSerialization ==
  (\E r \in Reqs : requests[r].st = "awaiting") =>
    /\ (\E q \in Reqs : ~Arrived(q)) => ENABLED SessionAssign
    /\ ENABLED UpdateConduitShards

\* C11 (step part): a provider call that completes sets the transport of the
\* shard to its own payload, whatever the shard held and whatever other
\* calls are in flight, and the transport changes at no other step: the
\* transport is always the payload of the call that completed last.
C11_LastCompletedStep ==
  /\ \A r \in Reqs :
       Completes(r) => Shard0' = Some(TransportWebsocket(requests[r].body))
  /\ helix_shards' # helix_shards => \E r \in Reqs : Completes(r)

\* C11: two authorized requests for the shard run concurrently without
\* local serialization; both provider calls are issued, and the transport
\* the provider holds is the payload of whichever call the provider
\* completed last.
C11_LastCompletedWins ==
  [](C11_NoSerialization) /\ [][C11_LastCompletedStep]_vars

\* Two authorized requests with different bodies: the call of the second
\* was completed before the call of the first, so that the provider holds
\* the payload of the first.
C11_Witness ==
  /\ RightSecret(1) /\ RightSecret(2)
  /\ requests[1].body # requests[2].body
  /\ requests[1].r = Some("Ok")
  /\ requests[2].r = Some("Ok")
  /\ requests[2].st = "done"
  /\ requests[1].st = "returned"
  /\ Shard0 = Some(TransportWebsocket(requests[1].body))

\* The shard index the caller of request r means to reassign: the first
\* request is meant for shard "0", every later one for shard "1".  The
\* endpoint has no parameter that carries it (main.rs:94-98).
ShardIndexOf(r) == IF r = 1 THEN "0" ELSE "1"

\* The requests meant for shard s whose provider call succeeded.
AssignedTo(s) ==
  {r \in Reqs : requests[r].r = Some("Ok") /\ ShardIndexOf(r) = s}

\* C12: authorized calls for different shard indices do not interfere: each
\* call updates only the transport of the shard index it is meant for, so
\* that every shard holds a transport exactly when a call for that shard
\* succeeded, and then the payload of such a call.
C12_EachCallUpdatesItsShard ==
  control_state # None =>
    \A s \in ShardIds :
      LET t == helix_shards[control_state[1].conduit][s]
      IN IF AssignedTo(s) = {}
           THEN t = None
           ELSE t \in {Some(TransportWebsocket(requests[r].body)) : r \in AssignedTo(s)}

\* The subscription the loop of main asks for at position k.
SubscriptionAt(k) ==
  [condition |-> ChannelChatMessageV1(broadcaster_users[k], my_user[1]),
   transport |-> TransportConduit(conduit[1])]

\* The loop of main makes its call for a pair the provider already holds.
DuplicateAttempt ==
  /\ pc = "subscribe"
  /\ i <= Len(broadcaster_users)
  /\ i' = i + 1
  /\ SubscriptionAt(i) \in helix_subscriptions

\* C13 (step part): a subscription call for a pair that is already
\* subscribed is rejected by the provider, the rejection is logged and the
\* loop goes on: the provider's subscriptions are as before, and main has
\* not returned.
C13_DuplicateStep ==
  /\ DuplicateAttempt =>
       /\ helix_subscriptions' = helix_subscriptions
       /\ Len(subscription_calls') = Len(subscription_calls) + 1
       /\ ~subscription_calls'[Len(subscription_calls')].ok
       /\ pc' = "subscribe"
       /\ err' = None
  /\ helix_subscriptions \subseteq helix_subscriptions'

\* C13 (state part): after the subscription pass main goes on to start the
\* server: once a subscription call was made it returns only when the bind
\* fails.
C13_StillStarts ==
  /\ (pc = "exited" /\ subscription_calls # <<>>) => err = Some("bind")
  /\ pc = "serving" => Len(subscription_calls) = Len(broadcaster_users)

\* C13: running the subscription pass again for pairs that are already
\* subscribed neither crashes nor aborts startup: the duplicate rejection is
\* non-fatal, the provider's subscriptions stay as the earlier run left
\* them, and the control endpoint still starts.
C13_RerunIdempotent ==
  [](C13_StillStarts) /\ [][C13_DuplicateStep]_vars

\* Both targets were subscribed by an earlier run: both calls of this run
\* were rejected, the provider holds the same two subscriptions, and the
\* server runs.
C13_Witness ==
  /\ pc = "serving"
  /\ Len(broadcaster_users) = 2
  /\ Len(subscription_calls) = 2
  /\ \A k \in 1..2 :
       /\ ~subscription_calls[k].ok
       /\ subscription_calls[k].subscription \in helix_subscriptions
  /\ Cardinality(helix_subscriptions) = 2

\* C14: ControlState (client handle, application token, conduit, control
\* secret) is never mutated after construction: once built, no step of any
\* handler, authorized or not and whatever the provider answers, changes any
\* of its four fields, in any interleaving of the handlers.
C14_ControlStateImmutable ==
  [][control_state # None =>
       /\ control_state'[1].client = control_state[1].client
       /\ control_state'[1].app_token = control_state[1].app_token
       /\ control_state'[1].conduit = control_state[1].conduit
       /\ control_state'[1].token = control_state[1].token
       /\ control_state' = control_state]_vars

\* The handlers have run interleaved - a failed provider call answered, a
\* request with a wrong secret refused - and ControlState holds what main
\* put into it.
C14_Witness ==
  /\ \E r, q \in Reqs :
       /\ RightSecret(r) /\ requests[r].r = Some("Err") /\ requests[r].st = "done"
       /\ WrongSecret(q) /\ requests[q].st = "done"
  /\ control_state =
       Some([client |-> "helix", app_token |-> AppToken,
             conduit |-> conduit[1], token |-> Secret])

\* C15: a handler suspended on its provider call blocks no other handler:
\* a request that is unauthorized is answered at once, and under fair
\* scheduling of the handlers every request whose own provider call has
\* returned gets its response, also while the provider call of another
\* handler never returns.
C15_HandlersDoNotBlock ==
  /\ [](\A r \in Reqs : WrongSecret(r) => requests[r].resp = Response401)
  /\ \A r \in Reqs :
       (requests[r].st = "returned") ~> (requests[r].resp = Response200)

\* The first request still waits for its provider call; a request that
\* arrived after it has had its call returned and has been answered.
C15_Witness ==
  \E r, q \in Reqs :
    /\ r < q
    /\ requests[r].st = "awaiting"
    /\ RightSecret(q)
    /\ requests[q].st = "done"
    /\ requests[q].resp = Response200

\* C16: one conduit identity is used by the process: every subscription
\* call of the startup pass is bound to the conduit main selected or
\* created, every update_conduit_shards call of every handler names that
\* same conduit id, and all of them carry the application token acquired at
\* startup.
C16_OneConduitIdentity ==
  /\ conduit # None =>
       \/ conduits # <<>> /\ conduit = Some(conduits[1])
       \/ conduits = <<>> /\ conduit = Some(NewConduitId)
  /\ (subscription_calls # <<>> \/ update_calls # <<>>) =>
       /\ conduit # None
       /\ app_token = Some(AppToken)
  /\ \A k \in 1..Len(subscription_calls) :
       /\ subscription_calls[k].subscription.transport = TransportConduit(conduit[1])
       /\ subscription_calls[k].token = app_token[1]
  /\ \A k \in 1..Len(update_calls) :
       /\ update_calls[k].conduit_id = conduit[1]
       /\ update_calls[k].token = app_token[1]

\* Of two conduits listed the first was selected; a subscription call was
\* made at startup and two handlers have issued their update calls.
C16_Witness ==
  /\ Len(conduits) = 2
  /\ subscription_calls # <<>>
  /\ Len(update_calls) = 2

\* The authorized requests whose update the provider applied.
Applied == {r \in Reqs : RightSecret(r) /\ requests[r].r = Some("Ok")}

\* C17: from the first successful assignment on, the transport the provider
\* holds for the shard is at all times the websocket transport of the whole
\* body of an authorized request whose update the provider applied: it is
\* never undefined again, never a partial value, never the payload of a
\* request that was not authorized; before the first successful assignment
\* the shard has no transport.
C17_TransportWellDefined ==
  control_state # None =>
    IF Applied = {}
      THEN Shard0 = None
      ELSE /\ Shard0 # None
           /\ Shard0[1].method = "websocket"
           /\ Shard0[1].session_id \in {requests[r].body : r \in Applied}
           /\ Shard0[1].session_id \in Bodies

\* After a successful assignment a request with a wrong secret and another
\* body was refused: the provider holds the transport of the successful
\* assignment.
C17_Witness ==
  /\ RightSecret(1) /\ requests[1].r = Some("Ok")
  /\ WrongSecret(2)
  /\ requests[2].body # requests[1].body
  /\ Shard0 = Some([method |-> "websocket", session_id |-> requests[1].body])

\* Resolving the acting user has failed.
ActingUserFailed ==
  err \in {Some("get_user_from_login"), Some("failed to retrieve my user")}

\* C18: no subscription call is made before the conduit has been selected
\* or created and the acting user resolved; so when resolving the acting
\* user fails, no subscription has been asked for or created and the
\* endpoint never starts, while the conduits have been listed and, if there
\* was none, one has been created in that run.
C18_SubscribeAfterConduitAndUser ==
  /\ subscription_calls # <<>> =>
       /\ Listed
       /\ conduit # None
       /\ my_user = Some(MyUserId)
  /\ \A k \in 1..Len(subscription_calls) :
       subscription_calls[k].subscription.condition.user_id = MyUserId
  /\ ActingUserFailed =>
       /\ subscription_calls = <<>>
       /\ helix_subscriptions = {}
       /\ pc = "exited"
       /\ control_state = None
       /\ \A r \in Reqs : ~Arrived(r)
       /\ Listed
       /\ conduit # None
       /\ conduits = <<>> =>
            /\ create_conduit_calls = <<ShardCount>>
            /\ helix_conduits = <<NewConduitId>>

\* The lookup of the acting user failed after no conduit was listed and one
\* was created: main has returned with the conduit left at the provider.
C18_Witness ==
  /\ err = Some("get_user_from_login")
  /\ conduits = <<>>
  /\ helix_conduits = <<NewConduitId>>
  /\ subscription_calls = <<>>
  /\ pc = "exited"

====
